---- MODULE Spec2Model ----
(***************************************************************************)
(* One conversion run of sdf_to_smiles: the record-by-record engine        *)
(* process_sdf_records (sdf_2_smiles.py and its copy in streamlit_app.py)  *)
(* driven by the batch writer convert_sdf_to_smiles, by the interactive     *)
(* front-end main(), or called directly.                                   *)
(*                                                                         *)
(* The chemistry library is an external collaborator: what it returns or   *)
(* raises for a record is part of the input (a field of the record).       *)
(***************************************************************************)
EXTENDS Integers, Sequences, FiniteSets, TLC

\* Longest input file, in records.
MaxRecords == 3

(***************************************************************************)
(* Python dict: insertion-ordered, unique keys; a sequence of k/v pairs.   *)
(***************************************************************************)
KV(k, v) == [k |-> k, v |-> v]

DictHas(d, k) == \E i \in 1..Len(d) : d[i].k = k

DictGet(d, k) == d[CHOOSE i \in 1..Len(d) : d[i].k = k].v

\* dict.get(k, default)
DictGetOr(d, k, default) == IF DictHas(d, k) THEN DictGet(d, k) ELSE default

\* d[k] = v : an existing key keeps its position, a new key goes last.
DictSet(d, k, v) ==
    IF DictHas(d, k)
    THEN LET p == CHOOSE i \in 1..Len(d) : d[i].k = k
         IN SubSeq(d, 1, p - 1) \o <<KV(k, v)>> \o SubSeq(d, p + 1, Len(d))
    ELSE Append(d, KV(k, v))

\* d.update(other): keys of d keep their place and take other's value, the
\* keys d lacks follow in other's order.
DictUpdate(d, other) ==
    [i \in 1..Len(d) |->
        IF DictHas(other, d[i].k) THEN KV(d[i].k, DictGet(other, d[i].k)) ELSE d[i]]
    \o SelectSeq(other, LAMBDA e : ~DictHas(d, e.k))

DictKeys(d) == {d[i].k : i \in 1..Len(d)}

DictKeyList(d) == [i \in 1..Len(d) |-> d[i].k]

(***************************************************************************)
(* Strings and paths.                                                      *)
(***************************************************************************)
\* str.strip() on the values the front-end's text inputs take here.
Strip(s) ==
    CASE s = " " -> ""
      [] s = " RUN-1 " -> "RUN-1"
      [] OTHER -> s

\* os.path.basename of a path given as its components.
Basename(path) == path[Len(path)]

\* datetime.utcnow().isoformat(timespec="seconds") + "Z" at clock reading t.
UtcNowIso(t) == "T" \o ToString(t) \o "Z"

\* Python truthiness of an optional string ("" stands for None too).
Truthy(s) == s # ""

(***************************************************************************)
(* Molecule records as the supplier yields them.  kind "None" is a record  *)
(* that failed to parse, "SupplierError" an exception raised by the        *)
(* supplier's iteration itself.  smiles_raises, props_raise, write_raises: *)
(* whether MolToSmiles, GetPropsAsDict, SDWriter.write raise on it.        *)
(* A property is [k, t, s, n]: key, python type of the value ("str" or     *)
(* "int") and the value in s or in n.                                      *)
(***************************************************************************)
PStr(k, s) == [k |-> k, t |-> "str", s |-> s, n |-> 0]
PInt(k, n) == [k |-> k, t |-> "int", s |-> "", n |-> n]

Mol(kind, smiles_raises, smiles, has_name, name, props, props_raise, write_raises) ==
    [kind |-> kind, smiles_raises |-> smiles_raises, smiles |-> smiles,
     has_name |-> has_name, name |-> name, props |-> props,
     props_raise |-> props_raise, write_raises |-> write_raises]

MolNone == Mol("None", FALSE, "", FALSE, "", <<>>, FALSE, FALSE)
MolSupplierError == Mol("SupplierError", FALSE, "", FALSE, "", <<>>, FALSE, FALSE)
MolBadValence == Mol("mol", TRUE, "", TRUE, "bad", <<PStr("MW", "1")>>, FALSE, FALSE)
MolUnwritable == Mol("mol", TRUE, "", FALSE, "", <<>>, FALSE, TRUE)
MolPropsRaise == Mol("mol", FALSE, "C", TRUE, "odd", <<>>, TRUE, FALSE)
MolAspirin == Mol("mol", FALSE, "CC(=O)Oc1ccccc1C(=O)O", TRUE, "Aspirin",
                     <<PInt("MW", 180)>>, FALSE, FALSE)
MolCollideA == Mol("mol", FALSE, "CCO", TRUE, "ethanol",
                     <<PStr("smiles", "OCC"), PStr("prop_smiles", "Y"),
                       PInt("record_index", 99)>>, FALSE, FALSE)
MolCollideB == Mol("mol", FALSE, "CCO", TRUE, "ethanol",
                     <<PStr("prop_smiles", "Y"), PInt("record_index", 99),
                       PStr("smiles", "OCC")>>, FALSE, FALSE)
MolTagged == Mol("mol", FALSE, "O", FALSE, "",
                     <<PStr("alcoa_complete_dataset_id", "TAG"),
                       PStr("mol_name", "water"), PStr("source_file", "old.sdf"),
                       PStr("processing_timestamp_utc", "1999")>>, FALSE, FALSE)

MolKinds == {MolNone, MolSupplierError, MolBadValence, MolUnwritable, MolPropsRaise,
             MolAspirin, MolCollideA, MolCollideB, MolTagged}

Files == UNION {[1..n -> MolKinds] : n \in 0..MaxRecords}

(***************************************************************************)
(* State.  Inputs of the run (fixed by Init): caller, ui, sdf_path,        *)
(* sdf_exists, file, bad_sdf_path, enforce_alcoa, ts_param, summary_json.  *)
(* The rest are the locals of process_sdf_records and of its caller, and   *)
(* the outputs the run leaves behind.                                      *)
(***************************************************************************)
VARIABLES
    caller,            \* "cli" convert_sdf_to_smiles, "ui" streamlit main, "api" a direct call
    ui,                \* the front-end's widgets: enable_alcoa, operator_name, dataset_id, bytes_empty
    sdf_path,          \* path components of the input
    sdf_exists,        \* os.path.isfile(sdf_path)
    file,              \* what the supplier yields, in file order
    bad_sdf_path,      \* "" when no failed-record path is passed
    enforce_alcoa,
    alcoa_metadata,    \* dict, <<>> when None
    ts_param,          \* run_timestamp_utc argument, "" when None
    summary_json,      \* CLI --summary-json, "" when absent
    pc,
    error,             \* the exception that ended the run, "" when none
    clock,             \* wall clock, one tick per step
    run_timestamp_utc,
    pos,               \* records taken from the supplier so far
    n,                 \* the five counters
    rows,
    bad_writer,        \* "None", "open", "closed"
    closes,            \* calls of bad_writer.close()
    bad_written,       \* records written to the failed-record sink
    sdf_file,          \* input handle: "unopened", "open", "closed"
    summary,
    csv,               \* the CSV produced: created, header, data
    summary_out,       \* where the summary was rendered: subset of {"stdout","json","ui"}
    ui_msg,            \* st.error / st.warning / st.success shown, "" when none
    merge              \* the property merge of one record taken step by step: props, pos, row

inputs == <<caller, ui, sdf_path, sdf_exists, file, bad_sdf_path, enforce_alcoa,
            ts_param, summary_json>>

vars == <<caller, ui, sdf_path, sdf_exists, file, bad_sdf_path, enforce_alcoa,
          alcoa_metadata, ts_param, summary_json, pc, error, clock,
          run_timestamp_utc, pos, n, rows, bad_writer, closes, bad_written,
          sdf_file, summary, csv, summary_out, ui_msg, merge>>

\* The state of a run, without the step-by-step merge.
runVars == <<caller, ui, sdf_path, sdf_exists, file, bad_sdf_path, enforce_alcoa,
             alcoa_metadata, ts_param, summary_json, pc, error, clock,
             run_timestamp_utc, pos, n, rows, bad_writer, closes, bad_written,
             sdf_file, summary, csv, summary_out, ui_msg>>

NoMerge == [props |-> <<>>, pos |-> 0, row |-> <<>>]

NoUi == [enable_alcoa |-> FALSE, operator_name |-> "", dataset_id |-> "",
         bytes_empty |-> FALSE]

ZeroCounts == [n_total |-> 0, n_parsed |-> 0, n_smiles_ok |-> 0,
               n_parse_fail |-> 0, n_smiles_fail |-> 0]

NoSummary == [present |-> FALSE, run_timestamp_utc |-> "", counts |-> ZeroCounts,
              output_csv |-> FALSE, bad_sdf |-> FALSE]

NoCsv == [created |-> FALSE, header |-> <<>>, data |-> <<>>]

(***************************************************************************)
(* Row construction (process_sdf_records, the body of the loop).           *)
(***************************************************************************)
\* enumerate(mol_iterator, start=1)
EnumerateStart == 1

\* Variant: the index counted from 0 (enumerate without start=1).
RecordIndexZeroBased(idx) == ToString(idx - 1)

\* str(idx)
RecordIndex(idx) == ToString(idx)

\* str(value) of a property value
StrValue(p) == IF p.t = "int" THEN ToString(p.n) ELSE p.s

\* run_timestamp_utc or (utcnow().isoformat() + "Z")
ResolveTimestamp(param, now) == IF Truthy(param) THEN param ELSE UtcNowIso(now)

\* The fixed columns a row starts with.
BaseRow(idx, smiles, source_file, timestamp) ==
    <<KV("record_index", RecordIndex(idx)), KV("smiles", smiles),
      KV("source_file", source_file), KV("processing_timestamp_utc", timestamp)>>

\* mol.GetProp("_Name"), "" on KeyError
MolName(mol) == IF mol.has_name THEN mol.name ELSE ""

\* Variant: no renaming, a colliding tag overwrites the column.
MergeKeyNoRename(row, key) == key

RECURSIVE MergeKeyUntilFree(_, _)
\* Variant: the key is prefixed again and again until it is free.
MergeKeyUntilFree(row, key) ==
    IF DictHas(row, key) THEN MergeKeyUntilFree(row, "prop_" \o key) ELSE key

\* The column a property key is stored under: renamed once on collision.
MergeKey(row, key) == IF DictHas(row, key) THEN "prop_" \o key ELSE key

\* One pass of the loop body: key_str = str(key), the rename, row[key_str] = str(value).
MergeOne(row, p) == DictSet(row, MergeKey(row, p.k), StrValue(p))

RECURSIVE MergeProps(_, _)
\* for key, value in props.items(): ...
MergeProps(row, props) ==
    IF props = <<>> THEN row
    ELSE MergeProps(MergeOne(row, Head(props)), Tail(props))

\* metadata.get("dataset_id") or f"{source_file}::{run_timestamp_utc}"
DatasetIdentifier(metadata, source_file, timestamp) ==
    IF Truthy(DictGetOr(metadata, "dataset_id", ""))
    THEN DictGet(metadata, "dataset_id")
    ELSE source_file \o "::" \o timestamp

\* _build_alcoa_columns; metadata is <<>> for None ("metadata or {}").
BuildAlcoaColumns(timestamp, source_file, metadata) ==
    <<KV("alcoa_attributable_operator", DictGetOr(metadata, "operator", "")),
      KV("alcoa_legible_purpose", DictGetOr(metadata, "purpose", "")),
      KV("alcoa_contemporaneous_timestamp_utc", timestamp),
      KV("alcoa_original_source_file", source_file),
      KV("alcoa_accurate_input_sha256", DictGetOr(metadata, "file_hash", "")),
      KV("alcoa_complete_dataset_id", DatasetIdentifier(metadata, source_file, timestamp)),
      KV("alcoa_consistent_processing_label",
         DictGetOr(metadata, "processing_label", "sdf_2_smiles_v1")),
      KV("alcoa_enduring_storage_plan", DictGetOr(metadata, "storage_plan", "")),
      KV("alcoa_available_contact", DictGetOr(metadata, "contact", ""))>>

\* Variant: the ALCOA+ block only fills columns the row lacks (setdefault).
StampAlcoaKeepExisting(row, enforce, timestamp, source_file, metadata) ==
    IF enforce
    THEN DictUpdate(BuildAlcoaColumns(timestamp, source_file, metadata), row)
    ELSE row

\* if enforce_alcoa: row.update(_build_alcoa_columns(...))
StampAlcoa(row, enforce, timestamp, source_file, metadata) ==
    IF enforce THEN DictUpdate(row, BuildAlcoaColumns(timestamp, source_file, metadata))
    ELSE row

\* The finished row of a record that parsed and canonicalized.
BuildRow(idx, mol, source_file, timestamp, enforce, metadata) ==
    StampAlcoa(
        MergeProps(DictSet(BaseRow(idx, mol.smiles, source_file, timestamp),
                           "mol_name", MolName(mol)),
                   mol.props),
        enforce, timestamp, source_file, metadata)

(***************************************************************************)
(* Counters.                                                               *)
(***************************************************************************)
\* n_total += 1
CountSeen(c) == [c EXCEPT !.n_total = @ + 1]

\* Variant: a parse failure that is not counted.
CountParseFailSkipped(c) == c

\* mol is None: n_parse_fail += 1
CountParseFail(c) == [c EXCEPT !.n_parse_fail = @ + 1]

\* n_parsed += 1
CountParsed(c) == [c EXCEPT !.n_parsed = @ + 1]

\* except Exception: n_smiles_fail += 1
CountSmilesFail(c) == [c EXCEPT !.n_smiles_fail = @ + 1]

\* n_smiles_ok += 1
CountSmilesOk(c) == [c EXCEPT !.n_smiles_ok = @ + 1]

(***************************************************************************)
(* The failed-record sink and the entry of process_sdf_records.            *)
(***************************************************************************)
\* Variant: the failed record is not written.
SinkWriteDropped(written, writer, mol) == written

\* if bad_writer: bad_writer.write(mol)
SinkWrite(written, writer, mol) ==
    IF writer # "None" THEN Append(written, mol) ELSE written

\* Variant: the sink is opened before the input is checked.
EntryStateOpensFirst(exists, bad_path) ==
    [raised |-> ~exists, bad_writer |-> IF Truthy(bad_path) THEN "open" ELSE "None"]

\* The isfile check, then SDWriter(bad_sdf_path) if bad_sdf_path else None.
EntryState(exists, bad_path) ==
    IF ~exists
    THEN [raised |-> TRUE, bad_writer |-> "None"]
    ELSE [raised |-> FALSE, bad_writer |-> IF Truthy(bad_path) THEN "open" ELSE "None"]

(***************************************************************************)
(* CSV writers.                                                            *)
(***************************************************************************)
\* Code-point order of the column names that can occur (what sorted() uses).
KeyOrder ==
    <<"MW",
      "alcoa_accurate_input_sha256",
      "alcoa_attributable_operator",
      "alcoa_available_contact",
      "alcoa_complete_dataset_id",
      "alcoa_consistent_processing_label",
      "alcoa_contemporaneous_timestamp_utc",
      "alcoa_enduring_storage_plan",
      "alcoa_legible_purpose",
      "alcoa_original_source_file",
      "mol_name",
      "processing_timestamp_utc",
      "prop_MW",
      "prop_alcoa_complete_dataset_id",
      "prop_mol_name",
      "prop_processing_timestamp_utc",
      "prop_prop_smiles",
      "prop_record_index",
      "prop_smiles",
      "prop_source_file",
      "record_index",
      "smiles",
      "source_file">>

\* sorted(S) for a set S of column names
Sorted(S) == SelectSeq(KeyOrder, LAMBDA k : k \in S)

\* {key for row in rows for key in row.keys()}
UnionKeys(rs) == UNION {DictKeys(rs[i]) : i \in 1..Len(rs)}

RECURSIVE AllKeys(_)
\* The keys of every row, row after row, each row's in insertion order.
AllKeys(rs) ==
    IF rs = <<>> THEN <<>>
    ELSE AllKeys(SubSeq(rs, 1, Len(rs) - 1)) \o DictKeyList(rs[Len(rs)])

\* pd.DataFrame(list of dicts).columns: keys in order of first appearance
FirstSeenKeys(rs) ==
    LET all == AllKeys(rs)
        first == SelectSeq([i \in 1..Len(all) |-> i],
                           LAMBDA i : \A j \in 1..(i - 1) : all[j] # all[i])
    IN [q \in 1..Len(first) |-> all[first[q]]]

\* One CSV line of a row under a header; a missing cell is written empty.
CsvLine(header, row) == [j \in 1..Len(header) |-> DictGetOr(row, header[j], "")]

CsvData(header, rs) == [i \in 1..Len(rs) |-> CsvLine(header, rs[i])]

FixedHeader ==
    <<"record_index", "smiles", "source_file", "processing_timestamp_utc", "mol_name">>

\* convert_sdf_to_smiles: the CSV written to out_csv
CliCsv(rs) ==
    IF rs = <<>>
    THEN [created |-> TRUE, header |-> FixedHeader, data |-> <<>>]
    ELSE LET fieldnames == Sorted(UnionKeys(rs))
         IN [created |-> TRUE, header |-> fieldnames, data |-> CsvData(fieldnames, rs)]

\* main: df = pd.DataFrame(rows); df.to_csv(index=False)
UiCsv(rs) ==
    LET columns == FirstSeenKeys(rs)
    IN [created |-> TRUE, header |-> columns, data |-> CsvData(columns, rs)]

(***************************************************************************)
(* The interactive front-end's inputs.                                     *)
(***************************************************************************)
\* hashlib.sha256(file_bytes).hexdigest(), a digest that depends on the upload
FileHash(f) == "sha256-" \o ToString(Len(f))

\* _build_alcoa_metadata
BuildAlcoaMetadata(operator_name, contact_info, purpose, storage_plan, dataset_id, file_hash) ==
    <<KV("operator", Strip(operator_name)), KV("contact", Strip(contact_info)),
      KV("purpose", Strip(purpose)), KV("storage_plan", Strip(storage_plan)),
      KV("dataset_id", Strip(dataset_id)), KV("file_hash", file_hash),
      KV("processing_label", "streamlit_app_v1")>>

UiInputs ==
    {[enable_alcoa |-> FALSE, operator_name |-> "", dataset_id |-> "", bytes_empty |-> e] :
        e \in BOOLEAN}
    \cup
    [enable_alcoa : {TRUE}, operator_name : {" ", "A"}, dataset_id : {" ", " RUN-1 "},
     bytes_empty : BOOLEAN]

(***************************************************************************)
(* Initial states: one run about to start, for each caller and input.      *)
(***************************************************************************)
InitLocals ==
    /\ alcoa_metadata = <<>>
    /\ error = ""
    /\ clock = 0
    /\ run_timestamp_utc = ""
    /\ pos = 0
    /\ n = ZeroCounts
    /\ rows = <<>>
    /\ bad_writer = "None"
    /\ closes = 0
    /\ bad_written = <<>>
    /\ sdf_file = "unopened"
    /\ summary = NoSummary
    /\ csv = NoCsv
    /\ summary_out = {}
    /\ ui_msg = ""

\* python sdf_2_smiles.py lib.sdf [--summary-json run.json]; main() always
\* passes a failed-record path (bad_file.sdf by default).
InitCli ==
    /\ caller = "cli"
    /\ ui = NoUi
    /\ sdf_path = <<"data", "lib.sdf">>
    /\ sdf_exists \in BOOLEAN
    /\ file \in (IF sdf_exists THEN Files ELSE {<<>>})
    /\ bad_sdf_path = "data/bad_file.sdf"
    /\ enforce_alcoa = FALSE
    /\ ts_param = ""
    /\ summary_json \in {"", "run.json"}
    /\ pc = "start"

\* The front-end: the upload is copied to a temporary file, no failed-record path.
InitUi ==
    /\ caller = "ui"
    /\ ui \in UiInputs
    /\ sdf_path = <<"tmp", "tmpk3x9.sdf">>
    /\ sdf_exists = FALSE
    /\ file \in (IF ui.bytes_empty THEN {<<>>} ELSE Files)
    /\ bad_sdf_path = ""
    /\ enforce_alcoa = ui.enable_alcoa
    /\ ts_param = ""
    /\ summary_json = ""
    /\ pc = "start"

\* A direct call of process_sdf_records with a sink, ALCOA+ without metadata
\* and a caller-supplied timestamp.
InitApi ==
    /\ caller = "api"
    /\ ui = NoUi
    /\ sdf_path = <<"lib.sdf">>
    /\ sdf_exists \in BOOLEAN
    /\ file \in (IF sdf_exists THEN Files ELSE {<<>>})
    /\ bad_sdf_path = "bad.sdf"
    /\ enforce_alcoa = TRUE
    /\ ts_param = "2024-05-01T10:00:00Z"
    /\ summary_json = ""
    /\ pc = "process"

Init == InitLocals /\ merge = NoMerge /\ (InitCli \/ InitUi \/ InitApi)

(***************************************************************************)
(* Callers, before the engine runs.                                        *)
(***************************************************************************)
\* convert_sdf_to_smiles: the isfile check before process_sdf_records
CliStart ==
    /\ pc = "start" /\ caller = "cli"
    /\ IF ~sdf_exists
       THEN pc' = "raised" /\ error' = "FileNotFoundError"
       ELSE pc' = "process" /\ error' = error
    /\ clock' = clock + 1
    /\ UNCHANGED merge
    /\ UNCHANGED <<inputs, alcoa_metadata, run_timestamp_utc, pos, n, rows, bad_writer,
                   closes, bad_written, sdf_file, summary, csv, summary_out, ui_msg>>

\* main, "Convert to CSV" pressed with a file uploaded: validation, then the
\* ALCOA+ metadata and the temporary copy of the upload.
UiStart ==
    /\ pc = "start" /\ caller = "ui"
    /\ LET missing_required ==
               ui.enable_alcoa /\ \E f \in {ui.operator_name, "b@x", "P"} : ~Truthy(Strip(f))
       IN IF missing_required
          THEN /\ ui_msg' = "error: required fields"
               /\ pc' = "done"
               /\ UNCHANGED <<alcoa_metadata, sdf_exists>>
          ELSE IF ui.bytes_empty
          THEN /\ ui_msg' = "error: empty upload"
               /\ pc' = "done"
               /\ UNCHANGED <<alcoa_metadata, sdf_exists>>
          ELSE /\ alcoa_metadata' =
                      IF ui.enable_alcoa
                      THEN BuildAlcoaMetadata(ui.operator_name, "b@x", "P",
                                              "Validated data lake", ui.dataset_id,
                                              FileHash(file))
                      ELSE <<>>
               /\ sdf_exists' = TRUE
               /\ pc' = "process"
               /\ ui_msg' = ui_msg
    /\ clock' = clock + 1
    /\ UNCHANGED merge
    /\ UNCHANGED <<caller, ui, sdf_path, file, bad_sdf_path, enforce_alcoa, ts_param,
                   summary_json, error, run_timestamp_utc, pos, n, rows, bad_writer,
                   closes, bad_written, sdf_file, summary, csv, summary_out>>

(***************************************************************************)
(* process_sdf_records.                                                    *)
(***************************************************************************)
\* Entry: the isfile check, the timestamp, the counters, the sink, the input.
ProcStart ==
    /\ pc = "process"
    /\ LET e == EntryState(sdf_exists, bad_sdf_path)
       IN /\ bad_writer' = e.bad_writer
          /\ IF e.raised
             THEN /\ pc' = "raised"
                  /\ error' = "FileNotFoundError"
                  /\ UNCHANGED <<run_timestamp_utc, sdf_file>>
             ELSE /\ pc' = "loop"
                  /\ error' = error
                  /\ run_timestamp_utc' = ResolveTimestamp(ts_param, clock)
                  /\ sdf_file' = "open"
    /\ n' = ZeroCounts
    /\ rows' = <<>>
    /\ clock' = clock + 1
    /\ UNCHANGED merge
    /\ UNCHANGED <<inputs, alcoa_metadata, pos, closes, bad_written, summary, csv,
                   summary_out, ui_msg>>

\* One iteration of the loop over the supplier.  An exception that nothing
\* catches leaves the with-block (the input is closed) and the function.
LoopStep ==
    /\ pc = "loop" /\ pos < Len(file)
    /\ LET mol == file[pos + 1]
           idx == pos + EnumerateStart
           source_file == Basename(sdf_path)
       IN CASE mol.kind = "SupplierError" ->
                 /\ pc' = "raised" /\ error' = "SupplierError" /\ sdf_file' = "closed"
                 /\ UNCHANGED <<n, rows, bad_written>>
            [] mol.kind = "None" ->
                 /\ n' = CountParseFail(CountSeen(n))
                 /\ UNCHANGED <<pc, error, sdf_file, rows, bad_written>>
            [] mol.kind = "mol" /\ mol.smiles_raises ->
                 /\ n' = CountSmilesFail(CountParsed(CountSeen(n)))
                 /\ IF bad_writer # "None" /\ mol.write_raises
                    THEN /\ pc' = "raised" /\ error' = "WriteError" /\ sdf_file' = "closed"
                         /\ UNCHANGED bad_written
                    ELSE /\ bad_written' = SinkWrite(bad_written, bad_writer, mol)
                         /\ UNCHANGED <<pc, error, sdf_file>>
                 /\ UNCHANGED rows
            [] mol.kind = "mol" /\ ~mol.smiles_raises ->
                 /\ n' = CountSmilesOk(CountParsed(CountSeen(n)))
                 /\ IF mol.props_raise
                    THEN /\ pc' = "raised" /\ error' = "PropsError" /\ sdf_file' = "closed"
                         /\ UNCHANGED rows
                    ELSE /\ rows' = Append(rows, BuildRow(idx, mol, source_file,
                                                          run_timestamp_utc, enforce_alcoa,
                                                          alcoa_metadata))
                         /\ UNCHANGED <<pc, error, sdf_file>>
                 /\ UNCHANGED bad_written
    /\ pos' = pos + 1
    /\ clock' = clock + 1
    /\ UNCHANGED merge
    /\ UNCHANGED <<inputs, alcoa_metadata, run_timestamp_utc, bad_writer, closes, summary,
                   csv, summary_out, ui_msg>>

\* The supplier is exhausted: the with-block ends, the sink is closed, the
\* summary is assembled and the function returns.
LoopExit ==
    /\ pc = "loop" /\ pos = Len(file)
    /\ sdf_file' = "closed"
    /\ IF bad_writer # "None"
       THEN bad_writer' = "closed" /\ closes' = closes + 1
       ELSE UNCHANGED <<bad_writer, closes>>
    /\ summary' = [NoSummary EXCEPT !.present = TRUE,
                                    !.run_timestamp_utc = run_timestamp_utc,
                                    !.counts = n]
    /\ pc' = "returned"
    /\ clock' = clock + 1
    /\ UNCHANGED merge
    /\ UNCHANGED <<inputs, alcoa_metadata, error, run_timestamp_utc, pos, n, rows,
                   bad_written, csv, summary_out, ui_msg>>

(***************************************************************************)
(* Callers, after the engine.                                              *)
(***************************************************************************)
\* convert_sdf_to_smiles: the CSV
CliWriteCsv ==
    /\ pc = "returned" /\ caller = "cli"
    /\ csv' = CliCsv(rows)
    /\ pc' = "csv_written"
    /\ clock' = clock + 1
    /\ UNCHANGED merge
    /\ UNCHANGED <<inputs, alcoa_metadata, error, run_timestamp_utc, pos, n, rows,
                   bad_writer, closes, bad_written, sdf_file, summary, summary_out, ui_msg>>

\* convert_sdf_to_smiles: the paths added to the summary, the optional JSON, the print
CliReport ==
    /\ pc = "csv_written" /\ caller = "cli"
    /\ summary' = [summary EXCEPT !.output_csv = TRUE, !.bad_sdf = TRUE]
    /\ summary_out' = {"stdout"} \cup (IF Truthy(summary_json) THEN {"json"} ELSE {})
    /\ pc' = "done"
    /\ clock' = clock + 1
    /\ UNCHANGED merge
    /\ UNCHANGED <<inputs, alcoa_metadata, error, run_timestamp_utc, pos, n, rows,
                   bad_writer, closes, bad_written, sdf_file, csv, ui_msg>>

\* main: finally: os.unlink(tmp_path), whether the engine returned or raised
UiCleanup ==
    /\ caller = "ui" /\ pc \in {"returned", "raised"} /\ sdf_exists
    /\ sdf_exists' = FALSE
    /\ clock' = clock + 1
    /\ UNCHANGED merge
    /\ UNCHANGED <<caller, ui, sdf_path, file, bad_sdf_path, enforce_alcoa, ts_param,
                   summary_json, alcoa_metadata, pc, error, run_timestamp_utc, pos, n,
                   rows, bad_writer, closes, bad_written, sdf_file, summary, csv,
                   summary_out, ui_msg>>

\* main: the warning and return on no rows, else the table, the CSV download
\* and the summary panel
UiRender ==
    /\ caller = "ui" /\ pc = "returned" /\ ~sdf_exists
    /\ IF rows = <<>>
       THEN /\ ui_msg' = "warning: no molecules converted"
            /\ UNCHANGED <<csv, summary_out>>
       ELSE /\ ui_msg' = "success"
            /\ csv' = UiCsv(rows)
            /\ summary_out' = {"ui"}
    /\ pc' = "done"
    /\ clock' = clock + 1
    /\ UNCHANGED merge
    /\ UNCHANGED <<inputs, alcoa_metadata, error, run_timestamp_utc, pos, n, rows,
                   bad_writer, closes, bad_written, sdf_file, summary>>

Next ==
    \/ CliStart
    \/ UiStart
    \/ ProcStart
    \/ LoopStep
    \/ LoopExit
    \/ CliWriteCsv
    \/ CliReport
    \/ UiCleanup
    \/ UiRender

Spec == Init /\ [][Next]_vars

\* Every column name that can occur is ranked by KeyOrder.
KeysKnown == \A i \in 1..Len(rows) : DictKeys(rows[i]) \subseteq {KeyOrder[j] : j \in 1..Len(KeyOrder)}

(***************************************************************************)
(* Properties.                                                             *)
(***************************************************************************)
Ended == pc \in {"returned", "raised", "csv_written", "done"}

Positions(k) == [i \in 1..k |-> i]

\* A record that parsed and canonicalized / that parsed and failed canonicalization.
IsSuccess(mol) == mol.kind = "mol" /\ ~mol.smiles_raises
IsSmilesFail(mol) == mol.kind = "mol" /\ mol.smiles_raises

IsPrefix(a, b) == Len(a) <= Len(b) /\ SubSeq(b, 1, Len(a)) = a

CountsBalanced(c) ==
    /\ c.n_parsed + c.n_parse_fail = c.n_total
    /\ c.n_smiles_ok + c.n_smiles_fail = c.n_parsed

\* C1: in every state of a run (so after every completed loop iteration) the
\* counters satisfy parsed_ok + parse_failures = total_records_seen and
\* smiles_converted_ok + smiles_failures = parsed_ok, and so do the counts of
\* the summary that process_sdf_records returns, which are the final counters.
C1_CountersBalance ==
    /\ CountsBalanced(n)
    /\ summary.present => summary.counts = n /\ CountsBalanced(summary.counts)

C1_Witness ==
    /\ summary.present
    /\ summary.counts.n_parse_fail > 0
    /\ summary.counts.n_smiles_fail > 0
    /\ summary.counts.n_smiles_ok > 0

\* C2: while no exception has ended the run, the rows are exactly the records
\* taken so far that parsed and canonicalized, in file order, each with
\* record_index the decimal 1-based position of its record in the file
\* (failed records counted), so the indices strictly increase and are not
\* compacted around failures.
C2_RowsInFileOrder ==
    error = "" =>
        LET ok == SelectSeq(Positions(pos), LAMBDA i : IsSuccess(file[i]))
        IN /\ Len(rows) = Len(ok)
           /\ \A j \in 1..Len(rows) :
                /\ DictGet(rows[j], "record_index") = ToString(ok[j])
                /\ DictGet(rows[j], "smiles") = file[ok[j]].smiles
                /\ j > 1 => ok[j - 1] < ok[j]

C2_Witness ==
    /\ pc = "returned"
    /\ Len(file) = 3 /\ ~IsSuccess(file[2])
    /\ Len(rows) = 2
    /\ DictGet(rows[1], "record_index") = "1"
    /\ DictGet(rows[2], "record_index") = "3"

\* C3: with a failed-record path configured, the records written to the sink
\* are, in file order, records that parsed and failed canonicalization (never
\* a null record, never a record that produced a row); while no exception has
\* ended the run they are exactly all such records among those taken so far.
C3_SinkHoldsSmilesFailures ==
    Truthy(bad_sdf_path) =>
        LET failed == SelectSeq(SubSeq(file, 1, pos), IsSmilesFail)
        IN /\ IsPrefix(bad_written, failed)
           /\ error = "" => bad_written = failed

C3_Witness ==
    /\ pc = "returned"
    /\ Truthy(bad_sdf_path)
    /\ Len(file) = 3 /\ file[1].kind = "None" /\ IsSuccess(file[3])
    /\ Len(bad_written) = 1 /\ bad_written[1] = file[2]
    /\ Len(rows) = 1

\* C4: the failed-record sink is opened only if a path was supplied, and once
\* opened it has been closed exactly once whenever process_sdf_records has
\* ended, by return or by exception.
C4_SinkClosedOnEveryExit ==
    /\ ~Truthy(bad_sdf_path) => bad_writer = "None"
    /\ Ended /\ bad_writer # "None" => bad_writer = "closed" /\ closes = 1

\* C5: once the input file exists no record aborts the run: the only
\* exception a run ends with is the missing-input error.
C5_NoRecordAbortsRun == pc = "raised" => error = "FileNotFoundError"

\* C6: a run on a missing input ends with the missing-input error, and at
\* that point no sink has been opened, no CSV or summary written, the input
\* not opened and no record taken.
C6_MissingInputLeavesNothing ==
    /\ caller \in {"cli", "api"} /\ ~sdf_exists /\ pc \notin {"start", "process"}
           => pc = "raised" /\ error = "FileNotFoundError"
    /\ error = "FileNotFoundError" =>
           /\ bad_writer = "None" /\ closes = 0 /\ bad_written = <<>>
           /\ ~csv.created /\ summary_out = {} /\ ~summary.present
           /\ sdf_file = "unopened" /\ pos = 0 /\ rows = <<>>

C6_Witness == caller = "api" /\ pc = "raised" /\ error = "FileNotFoundError"

\* The file position of the record the j-th row was built from: the j-th
\* record that parsed and canonicalized.
SourceIndex(j) == SelectSeq(Positions(pos), LAMBDA i : IsSuccess(file[i]))[j]

\* The value the engine itself gives a fixed column of the row of record i.
FixedValue(col, i) ==
    CASE col = "record_index" -> ToString(i)
      [] col = "smiles" -> file[i].smiles
      [] col = "source_file" -> Basename(sdf_path)
      [] col = "processing_timestamp_utc" -> run_timestamp_utc
      [] col = "mol_name" -> IF file[i].has_name THEN file[i].name ELSE ""

FixedColumns == {FixedHeader[j] : j \in 1..Len(FixedHeader)}

\* C7: for every row and every property of its record whose key is a fixed
\* column name, the row holds the fixed column's own value under that name and
\* the property's stringified value under the name prefixed with prop_.
C7_CollisionKeepsBoth ==
    \A j \in 1..Len(rows) :
        LET i == SourceIndex(j)
            props == file[i].props
        IN \A q \in 1..Len(props) :
               props[q].k \in FixedColumns =>
                   /\ DictGet(rows[j], props[q].k) = FixedValue(props[q].k, i)
                   /\ DictHas(rows[j], "prop_" \o props[q].k)
                   /\ DictGet(rows[j], "prop_" \o props[q].k) = StrValue(props[q])

C7_Witness ==
    \E j \in 1..Len(rows) :
        /\ file[SourceIndex(j)] = MolCollideB
        /\ DictGet(rows[j], "smiles") = "CCO"
        /\ DictGet(rows[j], "prop_smiles") = "OCC"
        /\ DictGet(rows[j], "prop_record_index") = "99"

Rank(k) == CHOOSE i \in 1..Len(KeyOrder) : KeyOrder[i] = k

\* C8: whenever rows were produced and a CSV was written, its header lists
\* the union of the keys of all rows in increasing (sorted) order, and every
\* row is written under that header; for the CLI and for the front-end.
C8_HeaderSortedUnion ==
    csv.created /\ rows # <<>> =>
        /\ {csv.header[j] : j \in 1..Len(csv.header)} = UnionKeys(rows)
        /\ \A j \in 1..(Len(csv.header) - 1) : Rank(csv.header[j]) < Rank(csv.header[j + 1])
        /\ csv.data = CsvData(csv.header, rows)

\* C9: a run that returns zero rows and has finished has written a CSV with
\* exactly the fixed five-column header and no data rows, has shown no error
\* and has rendered the summary.
C9_EmptyRunStillWritesCsv ==
    pc = "done" /\ summary.present /\ rows = <<>> =>
        /\ csv.created /\ csv.header = FixedHeader /\ csv.data = <<>>
        /\ summary_out # {}
        /\ ui_msg \notin {"error: required fields", "error: empty upload"}

\* C10: with ALCOA+ enabled every row's alcoa_complete_dataset_id is the
\* explicit dataset id when a non-empty one is supplied, and otherwise
\* <basename of the input>::<run timestamp>, whatever tags the record
\* carries; the run timestamp is the one in every row's
\* processing_timestamp_utc and in the summary.
C10_DatasetIdStamped ==
    enforce_alcoa =>
        LET explicit == DictGetOr(alcoa_metadata, "dataset_id", "")
            expected == IF explicit # "" THEN explicit
                        ELSE Basename(sdf_path) \o "::" \o run_timestamp_utc
        IN /\ \A j \in 1..Len(rows) :
                /\ DictGet(rows[j], "alcoa_complete_dataset_id") = expected
                /\ DictGet(rows[j], "processing_timestamp_utc") = run_timestamp_utc
                /\ DictGet(rows[j], "alcoa_contemporaneous_timestamp_utc") = run_timestamp_utc
           /\ summary.present => summary.run_timestamp_utc = run_timestamp_utc

C10_Witness ==
    /\ caller = "ui" /\ enforce_alcoa /\ pc = "done"
    /\ DictGetOr(alcoa_metadata, "dataset_id", "none") = ""
    /\ Len(rows) = 2
    /\ file[SourceIndex(1)] = MolTagged
    /\ DictGet(rows[1], "alcoa_complete_dataset_id") = "tmpk3x9.sdf::T1Z"
    /\ DictGet(rows[2], "alcoa_complete_dataset_id") = "tmpk3x9.sdf::T1Z"

(***************************************************************************)
(* The property merge of one record on its own, one property per step,     *)
(* for every bag of tags and every order in which GetPropsAsDict can hand  *)
(* them over.                                                              *)
(***************************************************************************)
\* Most tags on the record.
MaxProps == 3

MergeTags == {PStr("smiles", "OCC"), PStr("prop_smiles", "Y"),
              PStr("prop_prop_smiles", "Z"), PInt("MW", 180), PStr("mol_name", "w")}

\* A dict's items: no key twice.
TagLists ==
    UNION {{s \in [1..k -> MergeTags] : \A i, j \in 1..k : i # j => s[i].k # s[j].k} :
              k \in 0..MaxProps}

\* The row as it stands when the merge loop starts.
MergeInit ==
    /\ InitLocals
    /\ caller = "none"
    /\ ui = NoUi
    /\ sdf_path = <<"lib.sdf">>
    /\ sdf_exists = TRUE
    /\ file = <<>>
    /\ bad_sdf_path = ""
    /\ enforce_alcoa = FALSE
    /\ ts_param = ""
    /\ summary_json = ""
    /\ pc = "merge"
    /\ \E props \in TagLists :
           merge = [props |-> props, pos |-> 0,
                    row |-> DictSet(BaseRow(EnumerateStart, "CCO", Basename(sdf_path),
                                            UtcNowIso(clock)),
                                    "mol_name", "ethanol")]

\* One pass of "for key, value in props.items()".
MergeStep ==
    /\ pc = "merge" /\ merge.pos < Len(merge.props)
    /\ merge' = [merge EXCEPT !.pos = @ + 1,
                              !.row = MergeOne(@, merge.props[merge.pos + 1])]
    /\ UNCHANGED runVars

MergeNext == MergeStep

MergeSpec == MergeInit /\ [][MergeNext]_vars

\* C11: every step of the merge adds no key other than the property's key K
\* or prop_K (one rename at most); and when K is already in the row and
\* prop_K is already in it too, the step overwrites the value under prop_K
\* with K's value, creates no key and changes nothing else.  This holds for
\* every order of the properties.
C11_SecondCollisionOverwrites ==
    [][merge.pos < Len(merge.props) =>
          LET p == merge.props[merge.pos + 1]
              K == p.k
              row == merge.row
              after == merge'.row
          IN /\ DictKeys(after) \subseteq DictKeys(row) \cup {K, "prop_" \o K}
             /\ DictHas(row, K) /\ DictHas(row, "prop_" \o K) =>
                    /\ DictKeyList(after) = DictKeyList(row)
                    /\ DictGet(after, "prop_" \o K) = StrValue(p)
                    /\ \A i \in 1..Len(row) :
                           row[i].k # "prop_" \o K => after[i] = row[i]]_vars

\* The tag prop_smiles was merged first, then smiles collided twice: the
\* value Y is gone and no prop_prop_smiles exists.
C11_Witness ==
    /\ pc = "merge"
    /\ merge.props = <<PStr("prop_smiles", "Y"), PStr("smiles", "OCC")>>
    /\ merge.pos = 2
    /\ DictGet(merge.row, "smiles") = "CCO"
    /\ DictGet(merge.row, "prop_smiles") = "OCC"
    /\ ~DictHas(merge.row, "prop_prop_smiles")
    /\ Len(merge.row) = 6

====
